---- MODULE Spec2Model ----
(***************************************************************************)
(* Control flow of sample04_decoding.c: open a media container, select the *)
(* first audio and video stream, decode packet by packet, tear down.       *)
(* The media library (libavformat / libavcodec) is an external             *)
(* collaborator: the outcome of each library call is an input.             *)
(***************************************************************************)
EXTENDS Integers, Sequences, FiniteSets, TLC

\* Bounds of the model.
MaxStreams == 2
MaxPkts == 2
MaxErr == 1

Kinds == {"video", "audio", "other"}
\* what opening a decoder on the stream's codec context does:
\* "ok", no decoder registered ("nocodec"), avcodec_open2 fails ("initfail")
DecOutcomes == {"ok", "nocodec", "initfail"}

StreamDescs ==
    {s \in [kind : Kinds, dec : DecOutcomes] :
        s.kind = "other" => s.dec = "ok"}

SeqsUpTo(S, n) == UNION {[1..k -> S] : k \in 0..n}

VARIABLES
    pc,            \* position in main / open_input / release
    hasArg,        \* argc >= 2
    streams,       \* the file's streams, container order (fmt_ctx->streams)
    packets,       \* the file's packets: stream index of each, in read order
    fmt_ctx,       \* inputFile.fmt_ctx: "NULL" or "open"
    v_index,       \* inputFile.v_index
    a_index,       \* inputFile.a_index
    index,         \* loop variable of open_input / release
    open_ret,      \* what open_input returned; 1 while it has not returned
    ret,           \* ret of main: av_read_frame / decode_packet result
    decoder,       \* per stream index: "unopened", "open", "closed"
    decoded_frame, \* "unset", "NULL", "alloc", "freed"
    frameRef,      \* the frame buffer references decoded data
    pkt,           \* [stream_index, held] : the AVPacket of main
    got_frame,
    pos,           \* packets delivered by av_read_frame so far
    pending,       \* per stream index: packets fed, frame not yet handed out
    nErr,          \* av_read_frame failures other than end of stream
    cnt,           \* call and output counters (history)
    out,           \* set of messages printed by setup / usage
    tdlog,         \* teardown operations in the order they happened
    status         \* exit status, -1 while running

vars == <<pc, hasArg, streams, packets, fmt_ctx, v_index, a_index, index,
          open_ret, ret, decoder, decoded_frame, frameRef, pkt, got_frame,
          pos, pending,
          nErr, cnt, out, tdlog, status>>

nb_streams == Len(streams)
StreamIdx == 0 .. (nb_streams - 1)
StreamAt(i) == streams[i + 1]

CntInit ==
    [release |-> 0, openInput |-> 0, closeInput |-> 0, decOpenTry |-> 0,
     decOpenFail |-> 0, decode |-> 0, selRead |-> 0, video |-> 0,
     audio |-> 0, eof |-> 0,
     pktFree |-> 0, frameAlloc |-> 0, frameFree |-> 0, unframed |-> 0,
     video2 |-> 0, audio4 |-> 0, errFrame |-> 0]

\* The state at the start of main.  inputFile is a static record (line 14):
\* its fields are zero until open_input assigns them.  The file named by the
\* argument (its streams and packets) is the input of the run.
Init ==
    /\ pc = "main"
    /\ hasArg \in BOOLEAN
    /\ streams \in SeqsUpTo(StreamDescs, MaxStreams)
    /\ packets \in SeqsUpTo(0 .. (Len(streams) - 1), MaxPkts)
    /\ fmt_ctx = "NULL"
    /\ v_index = 0
    /\ a_index = 0
    /\ index = 0
    /\ open_ret = 1
    /\ ret = 0
    /\ decoder = [i \in 0 .. (Len(streams) - 1) |-> "unopened"]
    /\ decoded_frame = "unset"
    /\ frameRef = FALSE
    /\ pkt = [stream_index |-> 0, held |-> FALSE]
    /\ got_frame = FALSE
    /\ pos = 0
    /\ pending = [i \in 0 .. (Len(streams) - 1) |-> 0]
    /\ nErr = 0
    /\ cnt = CntInit
    /\ out = {}
    /\ tdlog = <<>>
    /\ status = -1

\* The counters are history, not program state.  They stop counting at
\* CntCap, a value no run with at most MaxErr failed reads gets to exceed.
CntCap == MaxPkts + MaxErr + 1
Inc(n) == IF n < CntCap THEN n + 1 ELSE n

Bump(f) == [cnt EXCEPT ![f] = Inc(@)]

\* MainArgs with the "return 0" after the usage line missing
MainArgs_NoReturn ==
    /\ pc = "main"
    /\ IF ~hasArg
         THEN /\ out' = out \cup {"usage"}
              /\ pc' = "open_input"
              /\ UNCHANGED status
         ELSE /\ pc' = "open_input"
              /\ UNCHANGED <<out, status>>
    /\ UNCHANGED <<open_ret, hasArg, streams, packets, fmt_ctx, v_index,
                   a_index, index, ret, decoder, decoded_frame, frameRef, pkt,
                   got_frame, pos, pending, nErr, cnt, tdlog>>

\* main, lines 169-173
MainArgs ==
    /\ pc = "main"
    /\ IF ~hasArg
         THEN /\ out' = out \cup {"usage"}
              /\ status' = 0
              /\ pc' = "exit"
         ELSE /\ pc' = "open_input"
              /\ UNCHANGED <<out, status>>
    /\ UNCHANGED <<open_ret, hasArg, streams, packets, fmt_ctx, v_index,
                   a_index, index, ret, decoder, decoded_frame, frameRef, pkt,
                   got_frame, pos, pending, nErr, cnt, tdlog>>

\* open_input, lines 41-52 (and main 178-181 on failure)
OpenInput ==
    /\ pc = "open_input"
    /\ v_index' = -1
    /\ a_index' = -1
    /\ \E ok \in BOOLEAN :
         IF ok
           THEN /\ fmt_ctx' = "open"
                /\ cnt' = Bump("openInput")
                /\ pc' = "find_stream_info"
                /\ UNCHANGED <<out, open_ret>>
           ELSE /\ fmt_ctx' = "NULL"
                /\ out' = out \cup {"open_error"}
                /\ open_ret' = -1
                /\ pc' = "main_end"
                /\ UNCHANGED cnt
    /\ UNCHANGED <<ret, hasArg, streams, packets, index, decoder,
                   decoded_frame, frameRef, pkt, got_frame, pos, pending,
                   nErr, tdlog, status>>

\* open_input, lines 62-66 (and main 178-181 on failure)
FindStreamInfo ==
    /\ pc = "find_stream_info"
    /\ \E ok \in BOOLEAN :
         IF ok
           THEN /\ index' = 0
                /\ pc' = "scan"
                /\ UNCHANGED <<out, open_ret>>
           ELSE /\ out' = out \cup {"probe_error"}
                /\ open_ret' = -2
                /\ pc' = "main_end"
                /\ UNCHANGED index
    /\ UNCHANGED <<ret, hasArg, streams, packets, fmt_ctx, v_index, a_index,
                   decoder, decoded_frame, frameRef, pkt, got_frame, pos,
                   pending, nErr, cnt, tdlog, status>>

\* open_decoder, lines 16-33: the return value for a codec context
open_decoder(s) ==
    IF s.dec = "nocodec" THEN -1
    ELSE IF s.dec = "initfail" THEN -2
    ELSE 0

\* WantVideo without the test that no video stream was selected yet
WantVideo_NoGuard(s) == s.kind = "video"

\* open_input, line 76
WantVideo(s) == s.kind = "video" /\ v_index < 0
\* open_input, line 86
WantAudio(s) == s.kind = "audio" /\ a_index < 0

\* ScanStream with "continue" in place of "break" when open_decoder fails
ScanStream_SkipFailed ==
    /\ pc = "scan"
    /\ index < nb_streams
    /\ LET s == StreamAt(index) IN
         IF WantVideo(s) \/ WantAudio(s)
           THEN /\ IF open_decoder(s) < 0
                     THEN /\ cnt' = [cnt EXCEPT !.decOpenTry = @ + 1,
                                                !.decOpenFail = @ + 1]
                          /\ index' = index + 1
                          /\ pc' = "scan"
                          /\ UNCHANGED <<v_index, a_index, decoder>>
                     ELSE /\ cnt' = Bump("decOpenTry")
                          /\ decoder' = [decoder EXCEPT ![index] = "open"]
                          /\ IF WantVideo(s)
                               THEN v_index' = index /\ UNCHANGED a_index
                               ELSE a_index' = index /\ UNCHANGED v_index
                          /\ index' = index + 1
                          /\ pc' = "scan"
           ELSE /\ index' = index + 1
                /\ pc' = "scan"
                /\ UNCHANGED <<v_index, a_index, decoder, cnt>>
    /\ UNCHANGED <<open_ret, hasArg, streams, packets, fmt_ctx, ret,
                   decoded_frame, frameRef, pkt, got_frame, pos, pending,
                   nErr, out, tdlog, status>>

\* ScanStream with the index recorded before open_decoder is called
ScanStream_SelectBeforeOpen ==
    /\ pc = "scan"
    /\ index < nb_streams
    /\ LET s == StreamAt(index) IN
         IF WantVideo(s) \/ WantAudio(s)
           THEN /\ IF open_decoder(s) < 0
                     THEN /\ cnt' = [cnt EXCEPT !.decOpenTry = @ + 1,
                                                !.decOpenFail = @ + 1]
                          /\ IF WantVideo(s)
                               THEN v_index' = index /\ UNCHANGED a_index
                               ELSE a_index' = index /\ UNCHANGED v_index
                          /\ pc' = "check"
                          /\ UNCHANGED <<index, decoder>>
                     ELSE /\ cnt' = Bump("decOpenTry")
                          /\ decoder' = [decoder EXCEPT ![index] = "open"]
                          /\ IF WantVideo(s)
                               THEN v_index' = index /\ UNCHANGED a_index
                               ELSE a_index' = index /\ UNCHANGED v_index
                          /\ index' = index + 1
                          /\ pc' = "scan"
           ELSE /\ index' = index + 1
                /\ pc' = "scan"
                /\ UNCHANGED <<v_index, a_index, decoder, cnt>>
    /\ UNCHANGED <<open_ret, hasArg, streams, packets, fmt_ctx, ret,
                   decoded_frame, frameRef, pkt, got_frame, pos, pending,
                   nErr, out, tdlog, status>>

\* open_input, lines 72-95: one iteration of the scan
ScanStream ==
    /\ pc = "scan"
    /\ index < nb_streams
    /\ LET s == StreamAt(index) IN
         IF WantVideo(s) \/ WantAudio(s)
           THEN /\ IF open_decoder(s) < 0
                     THEN /\ cnt' = [cnt EXCEPT !.decOpenTry = @ + 1,
                                                !.decOpenFail = @ + 1]
                          /\ pc' = "check"
                          /\ UNCHANGED <<v_index, a_index, index, decoder>>
                     ELSE /\ cnt' = Bump("decOpenTry")
                          /\ decoder' = [decoder EXCEPT ![index] = "open"]
                          /\ IF WantVideo(s)
                               THEN v_index' = index /\ UNCHANGED a_index
                               ELSE a_index' = index /\ UNCHANGED v_index
                          /\ index' = index + 1
                          /\ pc' = "scan"
           ELSE /\ index' = index + 1
                /\ pc' = "scan"
                /\ UNCHANGED <<v_index, a_index, decoder, cnt>>
    /\ UNCHANGED <<open_ret, hasArg, streams, packets, fmt_ctx, ret,
                   decoded_frame, frameRef, pkt, got_frame, pos, pending,
                   nErr, out, tdlog, status>>

\* open_input, line 72: the loop condition fails
ScanEnd ==
    /\ pc = "scan"
    /\ ~(index < nb_streams)
    /\ pc' = "check"
    /\ UNCHANGED <<open_ret, hasArg, streams, packets, fmt_ctx, v_index,
                   a_index, index, ret, decoder, decoded_frame, frameRef, pkt,
                   got_frame, pos, pending, nErr, cnt, out, tdlog, status>>

\* NoStreamSelected with the bound off by one
NoStreamSelected_OffByOne == a_index < -1 /\ a_index < -1

\* open_input, line 97: the condition as written (a_index is tested twice)
NoStreamSelected == a_index < 0 /\ a_index < 0

\* open_input, lines 97-103, and main, lines 178-181
CheckSelected ==
    /\ pc = "check"
    /\ IF NoStreamSelected
         THEN /\ out' = out \cup {"no_stream_error"}
              /\ open_ret' = -3
              /\ pc' = "main_end"
         ELSE /\ open_ret' = 0
              /\ pc' = "alloc"
              /\ UNCHANGED out
    /\ UNCHANGED <<ret, hasArg, streams, packets, fmt_ctx, v_index, a_index,
                   index, decoder, decoded_frame, frameRef, pkt, got_frame,
                   pos, pending, nErr, cnt, tdlog, status>>

\* AllocFrame with the slip "return 0" in place of "goto main_end"
AllocFrame_ReturnOnFail ==
    /\ pc = "alloc"
    /\ \E ok \in BOOLEAN :
         IF ok
           THEN /\ decoded_frame' = "alloc"
                /\ cnt' = Bump("frameAlloc")
                /\ pc' = "read"
           ELSE /\ decoded_frame' = "NULL"
                /\ pc' = "return"
                /\ UNCHANGED cnt
    /\ UNCHANGED <<open_ret, hasArg, streams, packets, fmt_ctx, v_index,
                   a_index, index, ret, decoder, frameRef, pkt, got_frame,
                   pos, pending, nErr, out, tdlog, status>>

\* main, lines 184-185
AllocFrame ==
    /\ pc = "alloc"
    /\ \E ok \in BOOLEAN :
         IF ok
           THEN /\ decoded_frame' = "alloc"
                /\ cnt' = Bump("frameAlloc")
                /\ pc' = "read"
           ELSE /\ decoded_frame' = "NULL"
                /\ pc' = "main_end"
                /\ UNCHANGED cnt
    /\ UNCHANGED <<open_ret, hasArg, streams, packets, fmt_ctx, v_index,
                   a_index, index, ret, decoder, frameRef, pkt, got_frame,
                   pos, pending, nErr, out, tdlog, status>>

\* what av_read_frame may leave in pkt.stream_index when it fails without
\* delivering a packet: the index of any stream (a blank packet has 0, an
\* untouched one the previous value) or a value that names no stream
FailedReadIdx == 0 .. nb_streams

\* main, lines 193-198
ReadFrame ==
    /\ pc = "read"
    /\ \/ /\ pos < Len(packets)
          /\ pkt' = [stream_index |-> packets[pos + 1], held |-> TRUE]
          /\ pos' = pos + 1
          /\ ret' = 0
          /\ cnt' = IF packets[pos + 1] \in {v_index, a_index}
                      THEN Bump("selRead") ELSE cnt
          /\ pc' = "route"
          /\ UNCHANGED nErr
       \/ /\ pos = Len(packets)
          /\ ret' = -4                      \* AVERROR_EOF
          /\ cnt' = Bump("eof")
          /\ pc' = "free_frame"
          /\ UNCHANGED <<pkt, pos, nErr>>
       \/ /\ nErr < MaxErr
          /\ nErr' = nErr + 1
          /\ ret' = -5                      \* any other error
          /\ \E i \in FailedReadIdx :
               pkt' = [stream_index |-> i, held |-> FALSE]
          /\ pc' = "route"
          /\ UNCHANGED <<pos, cnt>>
    /\ UNCHANGED <<open_ret, hasArg, streams, packets, fmt_ctx, v_index,
                   a_index, index, decoder, decoded_frame, frameRef,
                   got_frame, pending, out, tdlog, status>>

\* main, lines 200-201
Unselected(i) == i # v_index /\ i # a_index

\* Route with "continue" taken before av_free_packet
Route_SkipWithoutFree ==
    /\ pc = "route"
    /\ IF Unselected(pkt.stream_index)
         THEN pc' = "read"
         ELSE pc' = "decode"
    /\ UNCHANGED <<pkt, cnt>>
    /\ UNCHANGED <<open_ret, hasArg, streams, packets, fmt_ctx, v_index,
                   a_index, index, ret, decoder, decoded_frame, frameRef,
                   got_frame, pos, pending, nErr, out, tdlog, status>>

\* main, lines 200-206
Route ==
    /\ pc = "route"
    /\ IF Unselected(pkt.stream_index)
         THEN /\ pkt' = [pkt EXCEPT !.held = FALSE]
              /\ cnt' = Bump("pktFree")
              /\ pc' = "read"
         ELSE /\ pc' = "decode"
              /\ UNCHANGED <<pkt, cnt>>
    /\ UNCHANGED <<open_ret, hasArg, streams, packets, fmt_ctx, v_index,
                   a_index, index, ret, decoder, decoded_frame, frameRef,
                   got_frame, pos, pending, nErr, out, tdlog, status>>

\* decode_func with the two routines exchanged
decode_func_Swapped(s) == IF s.kind = "video" THEN "audio4" ELSE "video2"

\* decode_packet, line 139
decode_func(s) == IF s.kind = "video" THEN "video2" ELSE "audio4"

\* main, lines 208-218, and decode_packet, lines 124-149.  The decoder
\* buffers: it hands out at most one frame per call, and only for a packet
\* it was fed (now or earlier).  ret keeps the sign of decoded_size.
Decode ==
    /\ pc = "decode"
    /\ pkt.stream_index \in StreamIdx
    /\ LET i == pkt.stream_index
           fed == pending[i] + (IF pkt.held THEN 1 ELSE 0)
       IN  \E r \in {-1, 0}, g \in BOOLEAN :
             /\ g => fed > 0
             /\ ret' = r
             /\ got_frame' = g
             /\ pending' = [pending EXCEPT ![i] = fed - (IF g THEN 1 ELSE 0)]
             /\ frameRef' = (frameRef \/ g)
             /\ cnt' = [cnt EXCEPT !.decode = Inc(@),
                          ![decode_func(StreamAt(i))] = Inc(@),
                          !.unframed = IF r >= 0 /\ g THEN @ ELSE Inc(@),
                          !.errFrame = IF r < 0 /\ g THEN Inc(@) ELSE @]
    /\ pc' = "report"
    /\ UNCHANGED <<open_ret, hasArg, streams, packets, fmt_ctx, v_index,
                   a_index, index, decoder, decoded_frame, pkt, pos, nErr,
                   out, tdlog, status>>

\* ShouldReport without the test of the decode result
ShouldReport_IgnoreRet(r, g) == g

\* ShouldReport without the test of got_frame
ShouldReport_IgnoreGot(r, g) == r >= 0

\* main, line 219
ShouldReport(r, g) == r >= 0 /\ g

\* Report with the av_frame_unref of line 237 missing
Report_NoUnref ==
    /\ pc = "report"
    /\ IF ShouldReport(ret, got_frame)
         THEN /\ cnt' = [cnt EXCEPT
                    ![IF StreamAt(pkt.stream_index).kind = "video"
                        THEN "video" ELSE "audio"] = Inc(@),
                    !.pktFree = Inc(@)]
         ELSE cnt' = Bump("pktFree")
    /\ UNCHANGED frameRef
    /\ pkt' = [pkt EXCEPT !.held = FALSE]
    /\ pc' = "read"
    /\ UNCHANGED <<open_ret, hasArg, streams, packets, fmt_ctx, v_index,
                   a_index, index, ret, decoder, decoded_frame, got_frame,
                   pos, pending, nErr, out, tdlog, status>>

\* main, lines 219-240
Report ==
    /\ pc = "report"
    /\ IF ShouldReport(ret, got_frame)
         THEN /\ cnt' = [cnt EXCEPT
                    ![IF StreamAt(pkt.stream_index).kind = "video"
                        THEN "video" ELSE "audio"] = Inc(@),
                    !.pktFree = Inc(@)]
              /\ frameRef' = FALSE
         ELSE /\ cnt' = Bump("pktFree")
              /\ UNCHANGED frameRef
    /\ pkt' = [pkt EXCEPT !.held = FALSE]
    /\ pc' = "read"
    /\ UNCHANGED <<open_ret, hasArg, streams, packets, fmt_ctx, v_index,
                   a_index, index, ret, decoder, decoded_frame, got_frame,
                   pos, pending, nErr, out, tdlog, status>>

\* main, line 243
FreeFrame ==
    /\ pc = "free_frame"
    /\ decoded_frame' = "freed"
    /\ frameRef' = FALSE
    /\ cnt' = Bump("frameFree")
    /\ tdlog' = Append(tdlog, [op |-> "frame_free", idx |-> -1])
    /\ pc' = "main_end"
    /\ UNCHANGED <<open_ret, hasArg, streams, packets, fmt_ctx, v_index,
                   a_index, index, ret, decoder, pkt, got_frame, pos, pending,
                   nErr, out, status>>

\* MainEnd with the container closed before the decoders
MainEnd_CloseInputFirst ==
    /\ pc = "main_end"
    /\ IF fmt_ctx # "NULL"
         THEN /\ cnt' = [cnt EXCEPT !.release = @ + 1, !.closeInput = @ + 1]
              /\ tdlog' = Append(tdlog, [op |-> "close_input", idx |-> -1])
              /\ index' = 0
              /\ pc' = "close_loop"
         ELSE /\ cnt' = Bump("release")
              /\ pc' = "return"
              /\ UNCHANGED <<index, tdlog>>
    /\ UNCHANGED <<open_ret, hasArg, streams, packets, fmt_ctx, v_index,
                   a_index, ret, decoder, decoded_frame, frameRef, pkt,
                   got_frame, pos, pending, nErr, out, status>>

\* main, lines 245-246, and release, line 108
MainEnd ==
    /\ pc = "main_end"
    /\ cnt' = Bump("release")
    /\ IF fmt_ctx # "NULL"
         THEN /\ index' = 0
              /\ pc' = "close_loop"
         ELSE /\ pc' = "return"
              /\ UNCHANGED index
    /\ UNCHANGED <<open_ret, hasArg, streams, packets, fmt_ctx, v_index,
                   a_index, ret, decoder, decoded_frame, frameRef, pkt,
                   got_frame, pos, pending, nErr, out, tdlog, status>>

\* IsSelected with the audio index forgotten
IsSelected_VideoOnly(i) == v_index >= 0 /\ i = v_index

\* release, line 114: index is unsigned, so a negative v_index or a_index is
\* converted to a value above every stream index and never compares equal
IsSelected(i) == (v_index >= 0 /\ i = v_index) \/ (a_index >= 0 /\ i = a_index)

\* release, lines 111-118: one iteration of the loop
CloseCodec ==
    /\ pc = "close_loop"
    /\ index < nb_streams
    /\ IF IsSelected(index)
         THEN /\ decoder' = [decoder EXCEPT ![index] = "closed"]
              /\ tdlog' = Append(tdlog, [op |-> "close_codec", idx |-> index])
         ELSE UNCHANGED <<decoder, tdlog>>
    /\ index' = index + 1
    /\ UNCHANGED <<open_ret, pc, hasArg, streams, packets, fmt_ctx, v_index,
                   a_index, ret, decoded_frame, frameRef, pkt, got_frame, pos,
                   pending, nErr, cnt, out, status>>

\* release, lines 111 and 120
CloseInput ==
    /\ pc = "close_loop"
    /\ ~(index < nb_streams)
    /\ fmt_ctx' = "NULL"
    /\ cnt' = Bump("closeInput")
    /\ tdlog' = Append(tdlog, [op |-> "close_input", idx |-> -1])
    /\ pc' = "return"
    /\ UNCHANGED <<open_ret, hasArg, streams, packets, v_index, a_index,
                   index, ret, decoder, decoded_frame, frameRef, pkt,
                   got_frame, pos, pending, nErr, out, status>>

\* main, line 248
Return ==
    /\ pc = "return"
    /\ status' = 0
    /\ pc' = "exit"
    /\ UNCHANGED <<open_ret, hasArg, streams, packets, fmt_ctx, v_index,
                   a_index, index, ret, decoder, decoded_frame, frameRef, pkt,
                   got_frame, pos, pending, nErr, cnt, out, tdlog>>

Next ==
    \/ MainArgs
    \/ OpenInput
    \/ FindStreamInfo
    \/ ScanStream
    \/ ScanEnd
    \/ CheckSelected
    \/ AllocFrame
    \/ ReadFrame
    \/ Route
    \/ Decode
    \/ Report
    \/ FreeFrame
    \/ MainEnd
    \/ CloseCodec
    \/ CloseInput
    \/ Return

Spec == Init /\ [][Next]_vars

\* main, lines 193-194, when the read error persists: av_read_frame fails
\* again after MaxErr failures (nErr no longer counts them)
ReadFrameFailsAgain ==
    /\ pc = "read"
    /\ nErr = MaxErr
    /\ ret' = -5
    /\ \E i \in FailedReadIdx :
         pkt' = [stream_index |-> i, held |-> FALSE]
    /\ pc' = "route"
    /\ UNCHANGED <<open_ret, hasArg, streams, packets, fmt_ctx, v_index,
                   a_index, index, decoder, decoded_frame, frameRef,
                   got_frame, pos, pending, nErr, cnt, out, tdlog, status>>

NextLive ==
    \/ Next
    \/ ReadFrameFailsAgain

\* The program is sequential and always takes its next step; the library may
\* fail a read any number of times.
SpecLive == Init /\ [][NextLive]_vars /\ WF_vars(NextLive)

TypeOK ==
    /\ pc \in {"main", "open_input", "find_stream_info", "scan", "check",
               "alloc", "read", "route", "decode", "report", "free_frame",
               "main_end", "close_loop", "return", "exit"}
    /\ v_index \in -1 .. (nb_streams - 1) \cup {0}
    /\ a_index \in -1 .. (nb_streams - 1) \cup {0}
    /\ fmt_ctx \in {"NULL", "open"}
    /\ decoded_frame \in {"unset", "NULL", "alloc", "freed"}
    /\ pos \in 0 .. Len(packets)
    /\ nErr \in 0 .. MaxErr

----------------------------------------------------------------------------
\* Derived quantities used by the properties.

\* calls of av_read_frame so far
ReadCalls == pos + nErr + cnt.eof

\* number of entries of the teardown log with the given operation and index
LogCount(op, i) ==
    Cardinality({k \in 1 .. Len(tdlog) : tdlog[k].op = op /\ tdlog[k].idx = i})

\* a setup step has failed
SetupFailed ==
    \/ "open_error" \in out
    \/ "probe_error" \in out
    \/ cnt.decOpenFail > 0
    \/ decoded_frame = "NULL"

----------------------------------------------------------------------------
\* C1: once open_input has finished the stream scan, it returns the
\* NoStreamError value (-3), and no packet is ever read, if and only if
\* neither a video nor an audio stream was selected; with a video stream
\* selected and no audio stream, open_input returns 0.
C1_NoStreamErrorIffNoneSelected ==
    open_ret \in {0, -3} =>
        /\ (open_ret = -3) <=> (v_index < 0 /\ a_index < 0)
        /\ open_ret = -3 => ReadCalls = 0
        /\ (v_index >= 0 /\ a_index = -1) => open_ret = 0

\* C2 as stated: on every exit path, the missing argument included, release
\* has been called exactly once when the process exits.
C2_ReleaseOnceOnEveryPath == pc = "exit" => cnt.release = 1

\* C2 amended: release is never called twice; at exit it has been called
\* exactly once if the file argument was given and not at all if it was
\* missing.
C2_ReleaseOnceUnlessUsage ==
    /\ cnt.release <= 1
    /\ pc = "exit" => cnt.release = (IF hasArg THEN 1 ELSE 0)

C2_Witness ==
    /\ pc = "exit"
    /\ hasArg
    /\ decoded_frame = "NULL"
    /\ cnt.release = 1

\* C3: after any setup failure (container open, probe, decoder lookup,
\* decoder initialisation, frame allocation) no packet is read and no decode
\* call is made.
C3_SetupErrorsAreFatal ==
    SetupFailed => (ReadCalls = 0 /\ cnt.decode = 0)

\* C4: at exit the container is closed if it was opened, every decoder that
\* was opened has been closed exactly once, the frame buffer is freed if it
\* was allocated, and a run that opened no container performed no close.
C4_NoResourceLeftOpen ==
    pc = "exit" =>
        /\ fmt_ctx = "NULL"
        /\ cnt.closeInput = cnt.openInput
        /\ \A i \in StreamIdx :
             /\ decoder[i] # "open"
             /\ LogCount("close_codec", i) =
                    (IF decoder[i] = "closed" THEN 1 ELSE 0)
        /\ decoded_frame # "alloc"
        /\ cnt.frameFree = cnt.frameAlloc
        /\ cnt.openInput = 0 =>
             \A k \in 1 .. Len(tdlog) : tdlog[k].op = "frame_free"

C4_Witness ==
    /\ pc = "exit"
    /\ \E i, j \in StreamIdx :
         i # j /\ decoder[i] = "closed" /\ decoder[j] = "closed"
    /\ decoded_frame = "freed"
    /\ cnt.closeInput = 1

\* C5: packets on unselected streams never reach a decode call: between
\* loop iterations the number of decode calls equals the number of packets
\* read whose stream index is v_index or a_index.
C5_DecodeCallsEqualSelectedPackets ==
    pc \notin {"route", "decode"} => cnt.decode = cnt.selRead

\* index of the first stream of the kind in container order, -1 if none
FirstOfKind(k) ==
    IF \E i \in StreamIdx : StreamAt(i).kind = k
      THEN CHOOSE i \in StreamIdx :
             /\ StreamAt(i).kind = k
             /\ \A j \in StreamIdx : StreamAt(j).kind = k => i <= j
      ELSE -1

\* number of packets of the file that belong to stream i
PacketsOf(i) == Cardinality({k \in 1 .. Len(packets) : packets[k] = i})

\* container open, probe and frame allocation all succeeded (or were not
\* reached)
LibraryCallsOk ==
    /\ "open_error" \notin out
    /\ "probe_error" \notin out
    /\ decoded_frame # "NULL"

\* C6: for a file with one video stream and no audio stream whose decoder
\* opens and yields a frame for each of its N packets, the finished run has
\* printed N "Video :" blocks, no "Audio :" block and one "End of frame".
C6_VideoOnlyReportsEveryPacket ==
    ( /\ pc = "exit"
      /\ hasArg
      /\ LibraryCallsOk
      /\ nErr = 0
      /\ cnt.unframed = 0
      /\ \E i \in StreamIdx :
           /\ StreamAt(i) = [kind |-> "video", dec |-> "ok"]
           /\ \A j \in StreamIdx \ {i} : StreamAt(j).kind = "other" )
    => /\ cnt.video = PacketsOf(FirstOfKind("video"))
       /\ cnt.audio = 0
       /\ cnt.eof = 1

\* C7: the report blocks printed never outnumber the packets read on the
\* selected streams, and never the decode calls made (a decode call yields
\* at most one block).
C7_BlocksAtMostSelectedPackets ==
    /\ cnt.video + cnt.audio <= cnt.selRead
    /\ cnt.video + cnt.audio <= cnt.decode

C7_Witness ==
    /\ v_index >= 0
    /\ a_index >= 0
    /\ cnt.video = 1
    /\ cnt.audio = 1
    /\ pc = "read"

\* the teardown log so far is: the frame free, then decoder closes, then
\* the container close
TeardownInOrder ==
    \A k \in 1 .. Len(tdlog) :
        /\ tdlog[k].op = "frame_free" <=> k = 1
        /\ tdlog[k].op = "close_input" => k = Len(tdlog)

\* C8: after a normal end of stream the frame buffer is freed first, then
\* every opened decoder is closed, then the container is closed; no decoder
\* is closed after the container, and once teardown has begun nothing is
\* read or decoded.
C8_TeardownOrder ==
    /\ [](cnt.eof = 1 =>
            /\ TeardownInOrder
            /\ pc \notin {"free_frame", "main_end"} => tdlog # <<>>
            /\ pc \in {"return", "exit"} =>
                 /\ tdlog[Len(tdlog)].op = "close_input"
                 /\ \A i \in StreamIdx :
                      decoder[i] # "unopened" =>
                          LogCount("close_codec", i) = 1)
    /\ [][tdlog # <<>> =>
            (ReadCalls' = ReadCalls /\ cnt'.decode = cnt.decode)]_vars

C8_Witness ==
    /\ pc = "exit"
    /\ cnt.eof = 1
    /\ Len(tdlog) = 4
    /\ cnt.decode > 0

\* the file has no audio and no video stream
NoAVStream == \A i \in StreamIdx : StreamAt(i).kind = "other"

\* C9: for a file without audio and video streams no decoder open is
\* attempted, no packet is read and no decode call is made; once the
\* container is opened and probed the run reports NoStreamError, and it ends
\* through release, which closes the container.
C9_NoAVStreamFailsCleanly ==
    NoAVStream =>
        /\ cnt.decOpenTry = 0
        /\ ReadCalls = 0
        /\ cnt.decode = 0
        /\ (pc = "exit" /\ cnt.openInput = 1 /\ "probe_error" \notin out) =>
             /\ "no_stream_error" \in out
             /\ open_ret = -3
             /\ cnt.release = 1
             /\ cnt.closeInput = 1
             /\ fmt_ctx = "NULL"

C9_Witness ==
    /\ NoAVStream
    /\ streams # <<>>
    /\ packets # <<>>
    /\ pc = "exit"
    /\ "no_stream_error" \in out
    /\ cnt.closeInput = 1

\* each selected index is absent or names the first stream of its kind
IndicesFirstOrAbsent ==
    /\ v_index \in {-1, FirstOfKind("video")}
    /\ a_index \in {-1, FirstOfKind("audio")}

\* C10 as stated: in every state each index is -1 or the index of the first
\* stream of its kind, and a non-negative index is never modified.
C10_IndicesFirstAndStable ==
    /\ []IndicesFirstOrAbsent
    /\ [][/\ v_index >= 0 => v_index' = v_index
          /\ a_index >= 0 => a_index' = a_index]_vars

\* open_input has run its initialisation of the indices (line 43)
IndicesInitialised == hasArg /\ pc \notin {"main", "open_input"}

\* C10 amended: from the initialisation in open_input on, each index is -1
\* or the index of the first stream of its kind, and a non-negative index is
\* never modified; before it both hold 0, the value of the static record.
C10_IndicesFirstAndStableOnceInitialised ==
    /\ [](IF IndicesInitialised
            THEN IndicesFirstOrAbsent
            ELSE v_index = 0 /\ a_index = 0)
    /\ [][IndicesInitialised =>
            /\ v_index >= 0 => v_index' = v_index
            /\ a_index >= 0 => a_index' = a_index]_vars

C10_Witness ==
    /\ Len(streams) = 2
    /\ StreamAt(0).kind = "video"
    /\ StreamAt(1).kind = "video"
    /\ v_index = 0
    /\ pc = "check"
    /\ index = 2

\* C11: a decode call that returned an error prints no report block; its
\* packet is released and the loop goes back to reading (the run does not
\* end); the packet is not decoded a second time, every decode call being
\* preceded by a read of its own.
C11_DecodeErrorIsSkipped ==
    /\ [](cnt.decode <= pos + nErr)
    /\ [][(pc = "report" /\ ret < 0) =>
            /\ cnt'.video = cnt.video
            /\ cnt'.audio = cnt.audio
            /\ cnt'.pktFree = cnt.pktFree + 1
            /\ ~pkt'.held
            /\ cnt'.decode = cnt.decode
            /\ pc' = "read"]_vars

C11_Witness ==
    /\ pc = "read"
    /\ ret = -1
    /\ got_frame
    /\ pos < Len(packets)
    /\ cnt.decode = 1
    /\ cnt.video + cnt.audio = 0
    /\ cnt.pktFree = 1

\* C12: when open_decoder fails for the candidate stream at index i the scan
\* stops there: no decoder open is attempted afterwards, no stream at an
\* index >= i is selected or has its decoder opened, and the indices keep
\* the values they had, even if a later stream could have been opened.
C12_ScanStopsAtFailedOpen ==
    /\ [](cnt.decOpenFail <= 1)
    /\ []((pc = "check" /\ cnt.decOpenFail > 0) =>
            /\ index \in StreamIdx
            /\ open_decoder(StreamAt(index)) < 0
            /\ v_index < index
            /\ a_index < index
            /\ \A j \in StreamIdx : j >= index => decoder[j] = "unopened")
    /\ [][cnt.decOpenFail > 0 =>
            /\ cnt'.decOpenTry = cnt.decOpenTry
            /\ v_index' = v_index
            /\ a_index' = a_index
            /\ \A j \in StreamIdx :
                 decoder[j] = "unopened" => decoder'[j] = "unopened"]_vars

C12_Witness ==
    /\ pc = "exit"
    /\ Len(streams) = 2
    /\ StreamAt(0).kind = "video"
    /\ StreamAt(1) = [kind |-> "video", dec |-> "ok"]
    /\ cnt.decOpenFail = 1
    /\ cnt.decOpenTry = 1
    /\ v_index = -1
    /\ decoder[1] = "unopened"

\* the error messages open_input can print (lines 50, 64, 99)
ErrorMessages == {"open_error", "probe_error", "no_stream_error"}

\* C13: by the time teardown starts, every setup error (container open,
\* probe, no stream selected, decoder lookup or initialisation, frame
\* allocation) has had an error message printed, and the process exits with
\* status 0.
C13_SetupErrorsArePrinted ==
    /\ ( /\ SetupFailed \/ open_ret = -3
         /\ pc \in {"main_end", "close_loop", "return", "exit"} )
       => out \cap ErrorMessages # {}
    /\ pc = "exit" => status = 0

\* C14: a run without the file argument never opens a container or a
\* decoder, never allocates the frame buffer and never reads a packet; it
\* ends right after main's first step, with the usage line printed and
\* exit status 0.
C14_MissingArgumentOnlyPrintsUsage ==
    ~hasArg =>
        /\ pc \in {"main", "exit"}
        /\ fmt_ctx = "NULL"
        /\ cnt.openInput = 0
        /\ cnt.decOpenTry = 0
        /\ \A i \in StreamIdx : decoder[i] = "unopened"
        /\ cnt.frameAlloc = 0
        /\ decoded_frame = "unset"
        /\ ReadCalls = 0
        /\ pc = "exit" => ("usage" \in out /\ status = 0)

C14_Witness ==
    /\ ~hasArg
    /\ pc = "exit"
    /\ out = {"usage"}
    /\ status = 0
    /\ streams # <<>>
    /\ packets # <<>>

\* C15: a packet is held only between its read and the end of that loop
\* iteration, so it is released before the next read and at most one is
\* held; av_free_packet is called once in every iteration (skip, frame, no
\* frame, decode error alike), and the release of a held packet is one such
\* call.
C15_PacketReleasedOncePerIteration ==
    /\ [](pkt.held => pc \in {"route", "decode", "report"})
    /\ [](cnt.pktFree =
            pos + nErr - (IF pc \in {"route", "decode", "report"}
                            THEN 1 ELSE 0))
    /\ [][/\ (pkt.held /\ ~pkt'.held) => cnt'.pktFree = cnt.pktFree + 1
          /\ pos' > pos => (~pkt.held /\ pkt'.held /\ pos' = pos + 1)]_vars

C15_Witness ==
    /\ pc = "read"
    /\ pos = 2
    /\ nErr = 0
    /\ cnt.decode = 1
    /\ cnt.pktFree = 2
    /\ ~pkt.held

\* C16 as stated: whenever a decode call set got_frame, also with a negative
\* result, the frame buffer is unreferenced before the next read, so at
\* every read it holds no decoded data.
C16_FrameEmptyAtEveryRead == pc = "read" => ~frameRef

\* C16 amended: a decode call that set got_frame and returned a non-negative
\* result has the frame buffer unreferenced before the next read; one that
\* set got_frame and returned a negative result leaves the buffer as it is;
\* so at a read the buffer holds decoded data only if some earlier decode
\* call set got_frame while returning a negative result.
C16_FrameResetAfterSuccessfulDecode ==
    /\ []((pc = "read" /\ frameRef) => cnt.errFrame > 0)
    /\ [][/\ (pc = "report" /\ ret >= 0 /\ got_frame) =>
               (~frameRef' /\ pc' = "read")
          /\ (pc = "report" /\ ret < 0 /\ got_frame) =>
               (frameRef' /\ pc' = "read")]_vars

C16_Witness ==
    /\ pc = "read"
    /\ ret >= 0
    /\ got_frame
    /\ ~frameRef
    /\ cnt.video + cnt.audio = 1
    /\ cnt.errFrame = 0
    /\ pos < Len(packets)

\* C17: a "Video :" block is printed only for a packet whose stream index is
\* v_index and an "Audio :" block only for one whose stream index is
\* a_index; avcodec_decode_video2 is called exactly for the packets of the
\* video stream and avcodec_decode_audio4 exactly for those of the audio
\* stream.
C17_KindMatchesPacketStream ==
    [][/\ cnt'.video > cnt.video =>
            (pkt.stream_index = v_index /\ cnt'.audio = cnt.audio)
       /\ cnt'.audio > cnt.audio =>
            (pkt.stream_index = a_index /\ cnt'.video = cnt.video)
       /\ (pc = "decode" /\ pc' = "report") =>
            /\ pkt.stream_index \in {v_index, a_index}
            /\ v_index # a_index
            /\ cnt'.video2 =
                 cnt.video2 + (IF pkt.stream_index = v_index THEN 1 ELSE 0)
            /\ cnt'.audio4 =
                 cnt.audio4 + (IF pkt.stream_index = a_index THEN 1 ELSE 0)
       /\ pc # "decode" =>
            (cnt'.video2 = cnt.video2 /\ cnt'.audio4 = cnt.audio4)]_vars

C17_Witness ==
    /\ pc = "read"
    /\ cnt.video = 1
    /\ cnt.audio = 1
    /\ cnt.video2 = 1
    /\ cnt.audio4 = 1

\* the streams whose decoder is open, and the streams that are selected
OpenDecoders == {i \in StreamIdx : decoder[i] = "open"}
SelectedStreams == {v_index, a_index} \ {-1}

\* C18: from the end of the scan to the start of release the open decoders
\* are exactly the selected streams; every decode call is made on a stream
\* whose decoder is open; once the container has been closed nothing is
\* read or decoded.
C18_DecodeOnlyOnOpenDecoder ==
    /\ []((hasArg /\ pc \in {"check", "alloc", "read", "route", "decode",
                             "report", "free_frame", "main_end"}) =>
            OpenDecoders = SelectedStreams)
    /\ [](pc = "decode" =>
            /\ pkt.stream_index \in StreamIdx
            /\ decoder[pkt.stream_index] = "open"
            /\ fmt_ctx = "open")
    /\ [][cnt.closeInput > 0 =>
            (ReadCalls' = ReadCalls /\ cnt'.decode = cnt.decode)]_vars

C18_Witness ==
    /\ pc = "decode"
    /\ v_index >= 0
    /\ a_index >= 0
    /\ pkt.held
    /\ cnt.decode = 1
    /\ OpenDecoders = {0, 1}

\* C19: once the decode loop has been entered the run always leaves it:
\* it reaches exit with "End of frame" printed once and the container
\* closed, whatever av_read_frame returns on the way.
C19_DecodeLoopTerminates ==
    /\ [](cnt.eof <= 1)
    /\ [](pc = "read" =>
            <>(pc = "exit" /\ cnt.eof = 1 /\ fmt_ctx = "NULL"))
====
